---- MODULE Spec2Model ----
(***************************************************************************)
(* Model of lib-bdd-ffi (src/src/lib.rs): a C interface over the           *)
(* biodivine_lib_bdd engine with manually reference-counted Manager and    *)
(* RcBdd objects, a shared node budget and the pick-cube walk.             *)
(*                                                                         *)
(* A diagram value (Bdd) is modelled by its canonical reduced ordered      *)
(* form: a Bdd over n variables is the set of its satisfying total         *)
(* assignments, an assignment being the set of variables that are true.    *)
(* A node pointer of the diagram is the sub-function rooted at that node;  *)
(* its variable and links are the top variable and the two cofactors.      *)
(***************************************************************************)
EXTENDS Integers, Sequences, FiniteSets, TLC

\* ------------------------------------------------------------- bounds
MaxManagers == 2
MaxHandles == 3
MaxObjects == 4
MaxVars == 2
MaxBudget == 3
MaxRc == 2
MaxCubeVars == 3
MaxListLen == 1
CubeBudget == 16
MaxRefs == 3
MixVars == 2
MixBudget == 8
MaxChurn == 4

ManagerIds == 1..MaxManagers
HandleIds == 1..MaxHandles

\* A freed (or never allocated) heap slot.
Free == [freed |-> TRUE]
\* The unit value () of a call that returns nothing, or did not return.
NoValue == <<>>

\* ------------------------------------------------------------- engine
\* BddVariableSet::new_anonymous(num_vars): variables 0 .. num_vars-1.
VarsOf(n) == 0..(n - 1)

AllAssignments(n) == SUBSET VarsOf(n)

\* The diagram values over n variables.
Bdds(n) == [num_vars : {n}, tt : SUBSET AllAssignments(n)]

mk_false(n) == [num_vars |-> n, tt |-> {}]

mk_true(n) == [num_vars |-> n, tt |-> AllAssignments(n)]

mk_var(n, i) == [num_vars |-> n, tt |-> {a \in AllAssignments(n) : i \in a}]

mk_not_var(n, i) == [num_vars |-> n, tt |-> {a \in AllAssignments(n) : i \notin a}]

Bdd_not(f) == [f EXCEPT !.tt = AllAssignments(f.num_vars) \ f.tt]

Bdd_and(f, g) == [f EXCEPT !.tt = f.tt \cap g.tt]

Bdd_or(f, g) == [f EXCEPT !.tt = f.tt \cup g.tt]

Bdd_xor(f, g) == [f EXCEPT !.tt = (f.tt \ g.tt) \cup (g.tt \ f.tt)]

Bdd_imp(f, g) == [f EXCEPT !.tt = (AllAssignments(f.num_vars) \ f.tt) \cup g.tt]

Bdd_iff(f, g) == Bdd_not(Bdd_xor(f, g))

Bdd_and_not(f, g) == [f EXCEPT !.tt = f.tt \ g.tt]

Bdd_if_then_else(f, g, h) ==
    [f EXCEPT !.tt = (f.tt \cap g.tt) \cup (h.tt \ f.tt)]

\* Existential / universal elimination of the variables in vs.
Bdd_exists(f, vs) ==
    [f EXCEPT !.tt = {a \in AllAssignments(f.num_vars) :
                        \E b \in f.tt : a \ vs = b \ vs}]

Bdd_for_all(f, vs) ==
    [f EXCEPT !.tt = {a \in AllAssignments(f.num_vars) :
                        \A b \in AllAssignments(f.num_vars) :
                            (a \ vs = b \ vs) => b \in f.tt}]

\* ---- node structure of the canonical diagram
\* The cofactor of sub-function p (a set of assignments over n variables)
\* for variable v set to b.
Cofactor(n, p, v, b) ==
    {a \in AllAssignments(n) :
        (IF b THEN a \cup {v} ELSE a \ {v}) \in p}

DependsOn(n, p, v) == Cofactor(n, p, v, FALSE) # Cofactor(n, p, v, TRUE)

Support(n, p) == {v \in VarsOf(n) : DependsOn(n, p, v)}

Min(S) == CHOOSE x \in S : \A y \in S : x <= y

\* BddPointer::is_zero / is_one.
is_zero(p) == p = {}

is_one(n, p) == p = AllAssignments(n)

IsTerminal(n, p) == is_zero(p) \/ is_one(n, p)

\* Bdd::var_of: a terminal node carries num_vars as its variable.
var_of(n, p) == IF IsTerminal(n, p) THEN n ELSE Min(Support(n, p))

\* Bdd::low_link_of / high_link_of: a terminal node links to itself.
low_link_of(n, p) ==
    IF IsTerminal(n, p) THEN p ELSE Cofactor(n, p, var_of(n, p), FALSE)

high_link_of(n, p) ==
    IF IsTerminal(n, p) THEN p ELSE Cofactor(n, p, var_of(n, p), TRUE)

\* Bdd::root_pointer.
root_pointer(f) == f.tt

\* The decision nodes reachable from pointer p.
RECURSIVE InnerNodes(_, _)
InnerNodes(n, p) ==
    IF IsTerminal(n, p) THEN {}
    ELSE {p} \cup InnerNodes(n, low_link_of(n, p))
             \cup InnerNodes(n, high_link_of(n, p))

\* Bdd::is_false.
is_false(f) == f.tt = {}

\* Bdd::size: the false diagram is the single terminal 0; every other
\* diagram holds both terminals and its decision nodes.
size(f) == IF is_false(f) THEN 1 ELSE 2 + Cardinality(InnerNodes(f.num_vars, f.tt))

\* ------------------------------------------------------------- state
VARIABLES
    managers,   \* heap of Manager objects: ManagerIds -> Manager record or Free
    handles,    \* heap of RcBdd objects: HandleIds -> RcBdd record or Free
    proc,       \* "running", or why the process stopped
    held,       \* caller's explicit Manager references (manager_new / manager_ref
                \* minus manager_unref), per Manager pointer
    last,       \* the last interface call and what it returned
    heap_limit  \* the number of objects the allocator has room for

vars == <<managers, handles, proc, held, last, heap_limit>>

\* The program state the interface functions work on.
St == [managers |-> managers, handles |-> handles, proc |-> proc]

\* Manager::new changed to start the count at 0, as if no reference to the
\* new Manager had been handed out.
Manager_new_unowned(var_set, max_nodes_total) ==
    [var_set |-> var_set, rc |-> 0, nodes_total |-> 0,
     max_nodes_total |-> max_nodes_total]

\* Manager::new.
Manager_new(var_set, max_nodes_total) ==
    [var_set |-> var_set, rc |-> 1, nodes_total |-> 0,
     max_nodes_total |-> max_nodes_total]

\* RcBdd::new.
RcBdd_new(bdd, manager) == [bdd |-> bdd, rc |-> 1, manager |-> manager]

ManagerLive(s, m) == m \in ManagerIds /\ s.managers[m] # Free

HandleLive(s, h) == h \in HandleIds /\ s.handles[h] # Free

\* Box::new: the allocator hands out an unused slot.
FreeManagerIds(s) == {m \in ManagerIds : s.managers[m] = Free}

FreeHandleIds(s) == {h \in HandleIds : s.handles[h] = Free}

\* The process stops (abort, panic), or leaves defined behaviour.
Stop(s, cause) == [st |-> [s EXCEPT !.proc = cause], ret |-> NoValue]

Done(s, ret) == [st |-> s, ret |-> ret]

\* from_bdd changed to charge a diagram only once per Manager: a diagram
\* structurally equal to one a live Handle of the Manager holds is free.
from_bdd_shared(s, bdd, manager) ==
    LET m  == s.managers[manager]
        dup == \E h \in HandleIds :
                  /\ HandleLive(s, h)
                  /\ s.handles[h].manager = manager
                  /\ s.handles[h].bdd = bdd
        m1 == [m EXCEPT !.rc = @ + 1,
                        !.nodes_total = @ + (IF dup THEN 0 ELSE size(bdd))]
        s1 == [s EXCEPT !.managers[manager] = m1]
    IN  IF m1.nodes_total > m1.max_nodes_total
        THEN Stop(s1, "abort_budget")
        ELSE LET p == Min(FreeHandleIds(s1))
             IN  Done([s1 EXCEPT !.handles[p] = RcBdd_new(bdd, manager)], p)

\* from_bdd changed to abort as soon as the budget is reached (>= for >).
from_bdd_ge(s, bdd, manager) ==
    LET m  == s.managers[manager]
        m1 == [m EXCEPT !.rc = @ + 1, !.nodes_total = @ + size(bdd)]
        s1 == [s EXCEPT !.managers[manager] = m1]
    IN  IF m1.nodes_total >= m1.max_nodes_total
        THEN Stop(s1, "abort_budget")
        ELSE LET p == Min(FreeHandleIds(s1))
             IN  Done([s1 EXCEPT !.handles[p] = RcBdd_new(bdd, manager)], p)

\* from_bdd changed to charge the decision nodes and one terminal only, one
\* node less than the terminal bdd_unref gives back.
from_bdd_undercharged(s, bdd, manager) ==
    LET m  == s.managers[manager]
        m1 == [m EXCEPT !.rc = @ + 1, !.nodes_total = @ + size(bdd) - 1]
        s1 == [s EXCEPT !.managers[manager] = m1]
    IN  IF m1.nodes_total > m1.max_nodes_total
        THEN Stop(s1, "abort_budget")
        ELSE LET p == Min(FreeHandleIds(s1))
             IN  Done([s1 EXCEPT !.handles[p] = RcBdd_new(bdd, manager)], p)

\* from_bdd changed to take no Manager reference for the new Handle.
from_bdd_no_rc(s, bdd, manager) ==
    LET m  == s.managers[manager]
        m1 == [m EXCEPT !.nodes_total = @ + size(bdd)]
        s1 == [s EXCEPT !.managers[manager] = m1]
    IN  IF m1.nodes_total > m1.max_nodes_total
        THEN Stop(s1, "abort_budget")
        ELSE LET p == Min(FreeHandleIds(s1))
             IN  Done([s1 EXCEPT !.handles[p] = RcBdd_new(bdd, manager)], p)

\* bdd_t::from_bdd: the construction protocol with the budget guard.
from_bdd(s, bdd, manager) ==
    IF ~ManagerLive(s, manager) THEN Stop(s, "ub")
    ELSE
    LET m  == s.managers[manager]
        m1 == [m EXCEPT !.rc = @ + 1, !.nodes_total = @ + size(bdd)]
        s1 == [s EXCEPT !.managers[manager] = m1]
    IN  IF m1.nodes_total > m1.max_nodes_total
        THEN Stop(s1, "abort_budget")
        ELSE LET p == Min(FreeHandleIds(s1))
             IN  Done([s1 EXCEPT !.handles[p] = RcBdd_new(bdd, manager)], p)

\* manager_new.
manager_new(s, num_vars, max_nodes_total) ==
    LET p == Min(FreeManagerIds(s))
    IN  Done([s EXCEPT !.managers[p] = Manager_new(num_vars, max_nodes_total)], p)

\* manager_ref changed to hand the pointer back without counting it.
manager_ref_uncounted(s, manager) == Done(s, manager)

\* manager_ref.
manager_ref(s, manager) ==
    IF ~ManagerLive(s, manager) THEN Stop(s, "ub")
    ELSE Done([s EXCEPT !.managers[manager].rc = @ + 1], manager)

\* manager_unref.
manager_unref(s, manager) ==
    IF ~ManagerLive(s, manager) THEN Stop(s, "ub")
    ELSE IF s.managers[manager].rc = 1
         THEN Done([s EXCEPT !.managers[manager] = Free], NoValue)
         ELSE Done([s EXCEPT !.managers[manager].rc = @ - 1], NoValue)

\* manager_node_count.
manager_node_count(s, manager) ==
    IF ~ManagerLive(s, manager) THEN Stop(s, "ub")
    ELSE Done(s, s.managers[manager].nodes_total)

\* manager_ithvar / manager_nithvar / manager_true / manager_false.
manager_ithvar(s, manager, i) ==
    IF ~ManagerLive(s, manager) THEN Stop(s, "ub")
    ELSE from_bdd(s, mk_var(s.managers[manager].var_set, i), manager)

manager_nithvar(s, manager, i) ==
    IF ~ManagerLive(s, manager) THEN Stop(s, "ub")
    ELSE from_bdd(s, mk_not_var(s.managers[manager].var_set, i), manager)

manager_true(s, manager) ==
    IF ~ManagerLive(s, manager) THEN Stop(s, "ub")
    ELSE from_bdd(s, mk_true(s.managers[manager].var_set), manager)

manager_false(s, manager) ==
    IF ~ManagerLive(s, manager) THEN Stop(s, "ub")
    ELSE from_bdd(s, mk_false(s.managers[manager].var_set), manager)

\* bdd_ref changed to take a Manager reference as well.
bdd_ref_manager(s, f) ==
    Done([s EXCEPT !.handles[f].rc = @ + 1,
                   !.managers[s.handles[f].manager].rc = @ + 1], f)

\* bdd_ref.
bdd_ref(s, f) ==
    IF ~HandleLive(s, f) THEN Stop(s, "ub")
    ELSE Done([s EXCEPT !.handles[f].rc = @ + 1], f)

\* The subtraction of bdd_unref left out.
SubtractNodes_skip(s, f) == Done(s, NoValue)

\* The statement  (&mut *bdd.manager).nodes_total -= bdd.size()  of bdd_unref.
SubtractNodes(s, f) ==
    LET bdd == s.handles[f]
    IN  IF ~ManagerLive(s, bdd.manager) THEN Stop(s, "ub")
        ELSE IF s.managers[bdd.manager].nodes_total < size(bdd.bdd)
             THEN Stop(s, "overflow")
             ELSE Done([s EXCEPT !.managers[bdd.manager].nodes_total =
                                     @ - size(bdd.bdd)], NoValue)

\* The statement  drop(Box::from_raw(f._p))  of bdd_unref.
DropHandle(s, f) == Done([s EXCEPT !.handles[f] = Free], NoValue)

\* bdd_unref changed to release the Manager reference before it subtracts
\* the node count.
bdd_unref_reordered(s, f) ==
    IF s.handles[f].rc = 1
    THEN LET r1 == manager_unref(s, s.handles[f].manager)
             r2 == SubtractNodes(r1.st, f)
         IN  IF r1.st.proc # "running" THEN r1
             ELSE IF r2.st.proc # "running" THEN r2
             ELSE DropHandle(r2.st, f)
    ELSE Done([s EXCEPT !.handles[f].rc = @ - 1], NoValue)

\* bdd_unref changed to keep the nodes of a released diagram charged to the
\* Manager.
bdd_unref_no_refund(s, f) ==
    IF s.handles[f].rc = 1
    THEN LET r2 == manager_unref(s, s.handles[f].manager)
         IN  IF r2.st.proc # "running" THEN r2
             ELSE DropHandle(r2.st, f)
    ELSE Done([s EXCEPT !.handles[f].rc = @ - 1], NoValue)

\* bdd_unref changed to give back a Manager reference on every call, not
\* only on the terminal one.
bdd_unref_manager(s, f) ==
    IF s.handles[f].rc = 1
    THEN LET r1 == SubtractNodes(s, f)
             r2 == manager_unref(r1.st, s.handles[f].manager)
         IN  IF r1.st.proc # "running" THEN r1
             ELSE IF r2.st.proc # "running" THEN r2
             ELSE DropHandle(r2.st, f)
    ELSE Done([s EXCEPT !.handles[f].rc = @ - 1,
                        !.managers[s.handles[f].manager].rc = @ - 1], NoValue)

\* bdd_unref.
bdd_unref(s, f) ==
    IF ~HandleLive(s, f) THEN Stop(s, "ub")
    ELSE IF s.handles[f].rc = 1
         THEN \* the statements in program order; a statement runs only while
              \* the process is running
              LET r1 == SubtractNodes(s, f)
                  r2 == manager_unref(r1.st, s.handles[f].manager)
              IN  IF r1.st.proc # "running" THEN r1
                  ELSE IF r2.st.proc # "running" THEN r2
                  ELSE DropHandle(r2.st, f)
         ELSE Done([s EXCEPT !.handles[f].rc = @ - 1], NoValue)

\* bdd_not.
bdd_not(s, f) ==
    IF ~HandleLive(s, f) THEN Stop(s, "ub")
    ELSE from_bdd(s, Bdd_not(s.handles[f].bdd), s.handles[f].manager)

\* bdd_and changed to register the result with the second operand's Manager.
bdd_and_second_manager(s, f, g) ==
    from_bdd(s, Bdd_and(s.handles[f].bdd, s.handles[g].bdd), s.handles[g].manager)

\* bdd_and, bdd_or, bdd_xor, bdd_imp, bdd_iff, bdd_and_not: the result is
\* registered with the first operand's Manager.
bdd_and(s, f, g) ==
    IF ~HandleLive(s, f) \/ ~HandleLive(s, g) THEN Stop(s, "ub")
    ELSE from_bdd(s, Bdd_and(s.handles[f].bdd, s.handles[g].bdd), s.handles[f].manager)

bdd_or(s, f, g) ==
    IF ~HandleLive(s, f) \/ ~HandleLive(s, g) THEN Stop(s, "ub")
    ELSE from_bdd(s, Bdd_or(s.handles[f].bdd, s.handles[g].bdd), s.handles[f].manager)

bdd_xor(s, f, g) ==
    IF ~HandleLive(s, f) \/ ~HandleLive(s, g) THEN Stop(s, "ub")
    ELSE from_bdd(s, Bdd_xor(s.handles[f].bdd, s.handles[g].bdd), s.handles[f].manager)

bdd_imp(s, f, g) ==
    IF ~HandleLive(s, f) \/ ~HandleLive(s, g) THEN Stop(s, "ub")
    ELSE from_bdd(s, Bdd_imp(s.handles[f].bdd, s.handles[g].bdd), s.handles[f].manager)

bdd_iff(s, f, g) ==
    IF ~HandleLive(s, f) \/ ~HandleLive(s, g) THEN Stop(s, "ub")
    ELSE from_bdd(s, Bdd_iff(s.handles[f].bdd, s.handles[g].bdd), s.handles[f].manager)

bdd_and_not(s, f, g) ==
    IF ~HandleLive(s, f) \/ ~HandleLive(s, g) THEN Stop(s, "ub")
    ELSE from_bdd(s, Bdd_and_not(s.handles[f].bdd, s.handles[g].bdd),
                  s.handles[f].manager)

\* bdd_ite.
bdd_ite(s, f, g, h) ==
    IF ~HandleLive(s, f) \/ ~HandleLive(s, g) \/ ~HandleLive(s, h) THEN Stop(s, "ub")
    ELSE from_bdd(s, Bdd_if_then_else(s.handles[f].bdd, s.handles[g].bdd,
                                      s.handles[h].bdd),
                  s.handles[f].manager)

\* bdd_var_exists / bdd_var_forall.
bdd_var_exists(s, f, var) ==
    IF ~HandleLive(s, f) THEN Stop(s, "ub")
    ELSE from_bdd(s, Bdd_exists(s.handles[f].bdd, {var}), s.handles[f].manager)

bdd_var_forall(s, f, var) ==
    IF ~HandleLive(s, f) THEN Stop(s, "ub")
    ELSE from_bdd(s, Bdd_for_all(s.handles[f].bdd, {var}), s.handles[f].manager)

\* The variables named by the array (vars, num_vars) of a call.
Range(seq) == {seq[i] : i \in 1..Len(seq)}

\* bdd_exists / bdd_forall.
bdd_exists(s, f, var_list) ==
    IF ~HandleLive(s, f) THEN Stop(s, "ub")
    ELSE from_bdd(s, Bdd_exists(s.handles[f].bdd, Range(var_list)), s.handles[f].manager)

bdd_forall(s, f, var_list) ==
    IF ~HandleLive(s, f) THEN Stop(s, "ub")
    ELSE from_bdd(s, Bdd_for_all(s.handles[f].bdd, Range(var_list)), s.handles[f].manager)

\* bdd_and_exists / bdd_or_exists / bdd_and_forall / bdd_or_forall
\* (Bdd::binary_op_with_exists, Bdd::binary_op_with_for_all).
bdd_and_exists(s, f, g, var_list) ==
    IF ~HandleLive(s, f) \/ ~HandleLive(s, g) THEN Stop(s, "ub")
    ELSE from_bdd(s, Bdd_exists(Bdd_and(s.handles[f].bdd, s.handles[g].bdd), Range(var_list)),
                  s.handles[f].manager)

bdd_or_exists(s, f, g, var_list) ==
    IF ~HandleLive(s, f) \/ ~HandleLive(s, g) THEN Stop(s, "ub")
    ELSE from_bdd(s, Bdd_exists(Bdd_or(s.handles[f].bdd, s.handles[g].bdd), Range(var_list)),
                  s.handles[f].manager)

bdd_and_forall(s, f, g, var_list) ==
    IF ~HandleLive(s, f) \/ ~HandleLive(s, g) THEN Stop(s, "ub")
    ELSE from_bdd(s, Bdd_for_all(Bdd_and(s.handles[f].bdd, s.handles[g].bdd), Range(var_list)),
                  s.handles[f].manager)

bdd_or_forall(s, f, g, var_list) ==
    IF ~HandleLive(s, f) \/ ~HandleLive(s, g) THEN Stop(s, "ub")
    ELSE from_bdd(s, Bdd_for_all(Bdd_or(s.handles[f].bdd, s.handles[g].bdd), Range(var_list)),
                  s.handles[f].manager)

\* Bdd::rename_variables on a clone: every node labelled x is relabelled
\* sigma[x]. The caller guarantees that the relabelling keeps the diagram
\* ordered, so the result is the diagram of the substituted function.
Bdd_rename(f, sigma) ==
    LET n   == f.num_vars
        sup == Support(n, f.tt)
    IN  [f EXCEPT !.tt = {a \in AllAssignments(n) :
                            {x \in sup : sigma[x] \in a} \in
                                {b \cap sup : b \in f.tt}}]

\* The HashMap collected from the pair array: a later pair with the same
\* first component replaces an earlier one; other variables stay.
RECURSIVE VarMap(_, _)
VarMap(n, pairs) ==
    IF pairs = <<>> THEN [x \in VarsOf(n) |-> x]
    ELSE LET init == VarMap(n, SubSeq(pairs, 1, Len(pairs) - 1))
             p    == pairs[Len(pairs)]
         IN  [init EXCEPT ![p.first] = p.second]

\* bdd_rename_variable changed to rename the diagram of the Handle it was
\* given instead of a clone of it.
bdd_rename_variable_in_place(s, f, x, y) ==
    LET g  == s.handles[f].bdd
        b  == Bdd_rename(g, [v \in VarsOf(g.num_vars) |-> IF v = x THEN y ELSE v])
        s1 == [s EXCEPT !.handles[f].bdd = b]
    IN  from_bdd(s1, b, s.handles[f].manager)

\* bdd_rename_variable / bdd_rename_variables.
bdd_rename_variable(s, f, x, y) ==
    IF ~HandleLive(s, f) THEN Stop(s, "ub")
    ELSE LET g == s.handles[f].bdd
         IN  from_bdd(s, Bdd_rename(g, [v \in VarsOf(g.num_vars) |->
                                           IF v = x THEN y ELSE v]),
                      s.handles[f].manager)

bdd_rename_variables(s, f, var_pairs) ==
    IF ~HandleLive(s, f) THEN Stop(s, "ub")
    ELSE LET g == s.handles[f].bdd
         IN  from_bdd(s, Bdd_rename(g, VarMap(g.num_vars, var_pairs)),
                      s.handles[f].manager)

\* bdd_nodecount / bdd_satcount / bdd_eq.
bdd_nodecount(s, f) ==
    IF ~HandleLive(s, f) THEN Stop(s, "ub")
    ELSE Done(s, size(s.handles[f].bdd))

bdd_satcount(s, f) ==
    IF ~HandleLive(s, f) THEN Stop(s, "ub")
    ELSE Done(s, Cardinality(s.handles[f].bdd.tt))

bdd_eq(s, f, g) ==
    IF ~HandleLive(s, f) \/ ~HandleLive(s, g) THEN Stop(s, "ub")
    ELSE Done(s, s.handles[f].bdd = s.handles[g].bdd)

\* ------------------------------------------------------------- pick-cube
\* enum OptBool.
OptBool_None == -1
OptBool_False == 0
OptBool_True == 1

\* The loop of bdd_pickcube with the two recorded values exchanged.
RECURSIVE PickWalk_swapped(_, _, _, _)
PickWalk_swapped(f, p, assignment, visited) ==
    LET n == f.num_vars
    IN  IF is_one(n, p)
        THEN [panic |-> FALSE, assignment |-> assignment, visited |-> visited]
        ELSE LET c == low_link_of(n, p)
                 i == var_of(n, p)
             IN  IF ~is_zero(c)
                 THEN PickWalk_swapped(f, c, [assignment EXCEPT ![i + 1] = 1],
                                       Append(visited, i))
                 ELSE PickWalk_swapped(f, high_link_of(n, p),
                                       [assignment EXCEPT ![i + 1] = 0],
                                       Append(visited, i))

\* The loop of bdd_pickcube changed to prefer the high branch: the low
\* branch is taken only when the high successor is the terminal false node.
RECURSIVE PickWalk_high_first(_, _, _, _)
PickWalk_high_first(f, p, assignment, visited) ==
    LET n == f.num_vars
    IN  IF is_one(n, p)
        THEN [panic |-> FALSE, assignment |-> assignment, visited |-> visited]
        ELSE LET c == high_link_of(n, p)
                 i == var_of(n, p)
             IN  IF i >= Len(assignment)
                 THEN [panic |-> TRUE, assignment |-> assignment, visited |-> visited]
                 ELSE IF ~is_zero(c)
                 THEN PickWalk_high_first(f, c,
                                          [assignment EXCEPT ![i + 1] = OptBool_True],
                                          Append(visited, i))
                 ELSE LET d == low_link_of(n, p)
                      IN  IF is_zero(d)
                          THEN [panic |-> TRUE, assignment |-> assignment,
                                visited |-> visited]
                          ELSE PickWalk_high_first(f, d,
                                        [assignment EXCEPT ![i + 1] = OptBool_False],
                                        Append(visited, i))

\* The loop of bdd_pickcube changed to take the high branch without looking
\* at where it leads.
RECURSIVE PickWalk_unchecked(_, _, _, _)
PickWalk_unchecked(f, p, assignment, visited) ==
    LET n == f.num_vars
    IN  IF is_one(n, p)
        THEN [panic |-> FALSE, assignment |-> assignment, visited |-> visited]
        ELSE LET i == var_of(n, p)
             IN  IF i >= Len(assignment)
                 THEN [panic |-> TRUE, assignment |-> assignment, visited |-> visited]
                 ELSE PickWalk_unchecked(f, high_link_of(n, p),
                                         [assignment EXCEPT ![i + 1] = OptBool_True],
                                         Append(visited, i))

\* The loop of bdd_pickcube from pointer p with the assignment built so far;
\* visited lists the variables of the nodes the loop stood on. A failed
\* debug assertion or an index out of the vector's bounds panics.
RECURSIVE PickWalk(_, _, _, _)
PickWalk(f, p, assignment, visited) ==
    LET n == f.num_vars
    IN  IF is_one(n, p)
        THEN [panic |-> FALSE, assignment |-> assignment, visited |-> visited]
        ELSE LET c == low_link_of(n, p)
                 i == var_of(n, p)
             IN  IF i >= Len(assignment)
                 THEN [panic |-> TRUE, assignment |-> assignment, visited |-> visited]
                 ELSE IF ~is_zero(c)
                 THEN PickWalk(f, c, [assignment EXCEPT ![i + 1] = OptBool_False],
                               Append(visited, i))
                 ELSE LET d == high_link_of(n, p)
                      IN  IF is_zero(d)
                          THEN [panic |-> TRUE, assignment |-> assignment,
                                visited |-> visited]
                          ELSE PickWalk(f, d,
                                        [assignment EXCEPT ![i + 1] = OptBool_True],
                                        Append(visited, i))

\* bdd_assignment_t.
bdd_assignment_t(is_null, data) == [is_null |-> is_null, data |-> data, len |-> Len(data)]

\* The walk started from a vector of false entries instead of don't-care.
PickCubeWalk_init_false(f) ==
    PickWalk(f, root_pointer(f), [i \in 1..f.num_vars |-> OptBool_False], <<>>)

\* The walk started from a vector with one entry per node of the diagram
\* instead of one per variable.
PickCubeWalk_per_node(f) ==
    PickWalk(f, root_pointer(f), [i \in 1..size(f) |-> OptBool_None], <<>>)

\* The walk bdd_pickcube makes on a diagram that is not false.
PickCubeWalk(f) ==
    PickWalk(f, root_pointer(f), [i \in 1..f.num_vars |-> OptBool_None], <<>>)

\* bdd_pickcube changed to charge the entries of the vector it returns to
\* the node budget of the Manager.
bdd_pickcube_charged(s, f) ==
    LET g == s.handles[f].bdd
    IN  IF is_false(g) THEN Done(s, bdd_assignment_t(TRUE, <<>>))
        ELSE LET w == PickCubeWalk(g)
             IN  Done([s EXCEPT !.managers[s.handles[f].manager].nodes_total =
                                    @ + Len(w.assignment)],
                      bdd_assignment_t(FALSE, w.assignment))

\* bdd_pickcube without the early return for the false diagram.
bdd_pickcube_no_early_return(s, f) ==
    LET w == PickCubeWalk(s.handles[f].bdd)
    IN  IF w.panic THEN Stop(s, "panic")
        ELSE Done(s, bdd_assignment_t(FALSE, w.assignment))

\* bdd_pickcube.
bdd_pickcube(s, f) ==
    IF ~HandleLive(s, f) THEN Stop(s, "ub")
    ELSE LET g == s.handles[f].bdd
         IN  IF is_false(g) THEN Done(s, bdd_assignment_t(TRUE, <<>>))
             ELSE LET w == PickCubeWalk(g)
                  IN  IF w.panic THEN Stop(s, "panic")
                      ELSE Done(s, bdd_assignment_t(FALSE, w.assignment))

\* bdd_save: path_utf8 is whether the path is valid UTF-8, write_ok whether
\* the file system wrote the bytes; either unwrap panics otherwise.
bdd_save(s, f, path_utf8, write_ok) ==
    IF ~HandleLive(s, f) THEN Stop(s, "ub")
    ELSE IF ~path_utf8 \/ ~write_ok THEN Stop(s, "panic")
         ELSE Done(s, NoValue)

\* ------------------------------------------------------------- calls
Running == proc = "running"

LiveManagers == {m \in ManagerIds : ManagerLive(St, m)}

LiveHandles == {h \in HandleIds : HandleLive(St, h)}

\* The arguments the caller passes to manager_new.
NumVarsChoices == {MaxVars}

BudgetChoices == {MaxBudget}

\* The heap holds at most heap_limit objects: there is room for one more
\* Manager, or for one more RcBdd.
HeapRoom == Cardinality(LiveManagers) + Cardinality(LiveHandles) < heap_limit

RoomForManager == HeapRoom /\ FreeManagerIds(St) # {}

Room == HeapRoom /\ FreeHandleIds(St) # {}

NumVars(h) == handles[h].bdd.num_vars

VarLists(n) == UNION {[1..k -> VarsOf(n)] : k \in 0..MaxListLen}

PairLists(n) ==
    UNION {[1..k -> [first : VarsOf(n), second : VarsOf(n)]] : k \in 0..MaxListLen}

\* The caller's precondition of a rename: the relabelling keeps the
\* variables of the diagram in order.
RenameOrdered(f, sigma) ==
    \A x, y \in Support(f.num_vars, f.tt) : x < y => sigma[x] < sigma[y]

\* The effect of a call on the program state and on what the caller saw.
Commit(r, op, arg) ==
    /\ managers' = r.st.managers
    /\ handles' = r.st.handles
    /\ proc' = r.st.proc
    /\ last' = [op |-> op, arg |-> arg, ret |-> r.ret]
    /\ heap_limit' = heap_limit

Call_manager_new ==
    /\ Running
    /\ RoomForManager
    /\ \E num_vars \in NumVarsChoices, max_nodes_total \in BudgetChoices :
          LET r == manager_new(St, num_vars, max_nodes_total)
          IN  /\ Commit(r, "manager_new", 0)
              /\ held' = [held EXCEPT ![r.ret] = 1]

Call_manager_ref ==
    /\ Running
    /\ \E m \in LiveManagers :
          /\ held[m] < MaxRc
          /\ Commit(manager_ref(St, m), "manager_ref", m)
          /\ held' = [held EXCEPT ![m] = @ + 1]

\* The caller gives up one of the explicit references it holds.
Call_manager_unref ==
    /\ Running
    /\ \E m \in LiveManagers :
          /\ held[m] > 0
          /\ Commit(manager_unref(St, m), "manager_unref", m)
          /\ held' = [held EXCEPT ![m] = @ - 1]

Call_manager_node_count ==
    /\ Running
    /\ \E m \in LiveManagers :
          Commit(manager_node_count(St, m), "manager_node_count", m)
    /\ UNCHANGED held

Call_manager_ithvar ==
    /\ Running
    /\ Room
    /\ \E m \in LiveManagers : \E i \in VarsOf(managers[m].var_set) :
          Commit(manager_ithvar(St, m, i), "manager_ithvar", m)
    /\ UNCHANGED held

Call_manager_nithvar ==
    /\ Running
    /\ Room
    /\ \E m \in LiveManagers : \E i \in VarsOf(managers[m].var_set) :
          Commit(manager_nithvar(St, m, i), "manager_nithvar", m)
    /\ UNCHANGED held

Call_manager_true ==
    /\ Running
    /\ Room
    /\ \E m \in LiveManagers :
          Commit(manager_true(St, m), "manager_true", m)
    /\ UNCHANGED held

Call_manager_false ==
    /\ Running
    /\ Room
    /\ \E m \in LiveManagers :
          Commit(manager_false(St, m), "manager_false", m)
    /\ UNCHANGED held

Call_bdd_ref ==
    /\ Running
    /\ \E f \in LiveHandles :
          /\ handles[f].rc < MaxRc
          /\ Commit(bdd_ref(St, f), "bdd_ref", f)
    /\ UNCHANGED held

Call_bdd_unref ==
    /\ Running
    /\ \E f \in LiveHandles : Commit(bdd_unref(St, f), "bdd_unref", f)
    /\ UNCHANGED held

Call_bdd_not ==
    /\ Running
    /\ Room
    /\ \E f \in LiveHandles :
          Commit(bdd_not(St, f), "bdd_not", f)
    /\ UNCHANGED held

\* The engine combines only diagrams over the same number of variables.
Call_bdd_and ==
    /\ Running
    /\ Room
    /\ \E f, g \in LiveHandles :
          /\ NumVars(f) = NumVars(g)
          /\ Commit(bdd_and(St, f, g), "bdd_and", f)
    /\ UNCHANGED held

Call_bdd_or ==
    /\ Running
    /\ Room
    /\ \E f, g \in LiveHandles :
          /\ NumVars(f) = NumVars(g)
          /\ Commit(bdd_or(St, f, g), "bdd_or", f)
    /\ UNCHANGED held

Call_bdd_xor ==
    /\ Running
    /\ Room
    /\ \E f, g \in LiveHandles :
          /\ NumVars(f) = NumVars(g)
          /\ Commit(bdd_xor(St, f, g), "bdd_xor", f)
    /\ UNCHANGED held

Call_bdd_imp ==
    /\ Running
    /\ Room
    /\ \E f, g \in LiveHandles :
          /\ NumVars(f) = NumVars(g)
          /\ Commit(bdd_imp(St, f, g), "bdd_imp", f)
    /\ UNCHANGED held

Call_bdd_iff ==
    /\ Running
    /\ Room
    /\ \E f, g \in LiveHandles :
          /\ NumVars(f) = NumVars(g)
          /\ Commit(bdd_iff(St, f, g), "bdd_iff", f)
    /\ UNCHANGED held

Call_bdd_and_not ==
    /\ Running
    /\ Room
    /\ \E f, g \in LiveHandles :
          /\ NumVars(f) = NumVars(g)
          /\ Commit(bdd_and_not(St, f, g), "bdd_and_not", f)
    /\ UNCHANGED held

Call_bdd_ite ==
    /\ Running
    /\ Room
    /\ \E f, g, h \in LiveHandles :
          /\ NumVars(f) = NumVars(g)
          /\ NumVars(f) = NumVars(h)
          /\ Commit(bdd_ite(St, f, g, h), "bdd_ite", f)
    /\ UNCHANGED held

Call_bdd_var_exists ==
    /\ Running
    /\ Room
    /\ \E f \in LiveHandles : \E var \in VarsOf(NumVars(f)) :
          Commit(bdd_var_exists(St, f, var), "bdd_var_exists", f)
    /\ UNCHANGED held

Call_bdd_var_forall ==
    /\ Running
    /\ Room
    /\ \E f \in LiveHandles : \E var \in VarsOf(NumVars(f)) :
          Commit(bdd_var_forall(St, f, var), "bdd_var_forall", f)
    /\ UNCHANGED held

Call_bdd_exists ==
    /\ Running
    /\ Room
    /\ \E f \in LiveHandles : \E var_list \in VarLists(NumVars(f)) :
          Commit(bdd_exists(St, f, var_list), "bdd_exists", f)
    /\ UNCHANGED held

Call_bdd_forall ==
    /\ Running
    /\ Room
    /\ \E f \in LiveHandles : \E var_list \in VarLists(NumVars(f)) :
          Commit(bdd_forall(St, f, var_list), "bdd_forall", f)
    /\ UNCHANGED held

Call_bdd_and_exists ==
    /\ Running
    /\ Room
    /\ \E f, g \in LiveHandles :
          /\ NumVars(f) = NumVars(g)
          /\ \E var_list \in VarLists(NumVars(f)) :
                Commit(bdd_and_exists(St, f, g, var_list), "bdd_and_exists", f)
    /\ UNCHANGED held

Call_bdd_or_exists ==
    /\ Running
    /\ Room
    /\ \E f, g \in LiveHandles :
          /\ NumVars(f) = NumVars(g)
          /\ \E var_list \in VarLists(NumVars(f)) :
                Commit(bdd_or_exists(St, f, g, var_list), "bdd_or_exists", f)
    /\ UNCHANGED held

Call_bdd_and_forall ==
    /\ Running
    /\ Room
    /\ \E f, g \in LiveHandles :
          /\ NumVars(f) = NumVars(g)
          /\ \E var_list \in VarLists(NumVars(f)) :
                Commit(bdd_and_forall(St, f, g, var_list), "bdd_and_forall", f)
    /\ UNCHANGED held

Call_bdd_or_forall ==
    /\ Running
    /\ Room
    /\ \E f, g \in LiveHandles :
          /\ NumVars(f) = NumVars(g)
          /\ \E var_list \in VarLists(NumVars(f)) :
                Commit(bdd_or_forall(St, f, g, var_list), "bdd_or_forall", f)
    /\ UNCHANGED held

Call_bdd_rename_variable ==
    /\ Running
    /\ Room
    /\ \E f \in LiveHandles : \E x, y \in VarsOf(NumVars(f)) :
          /\ RenameOrdered(handles[f].bdd,
                           [v \in VarsOf(NumVars(f)) |-> IF v = x THEN y ELSE v])
          /\ Commit(bdd_rename_variable(St, f, x, y), "bdd_rename_variable", f)
    /\ UNCHANGED held

Call_bdd_rename_variables ==
    /\ Running
    /\ Room
    /\ \E f \in LiveHandles : \E var_pairs \in PairLists(NumVars(f)) :
          /\ RenameOrdered(handles[f].bdd, VarMap(NumVars(f), var_pairs))
          /\ Commit(bdd_rename_variables(St, f, var_pairs), "bdd_rename_variables", f)
    /\ UNCHANGED held

Call_bdd_nodecount ==
    /\ Running
    /\ \E f \in LiveHandles :
          Commit(bdd_nodecount(St, f), "bdd_nodecount", f)
    /\ UNCHANGED held

Call_bdd_satcount ==
    /\ Running
    /\ \E f \in LiveHandles :
          Commit(bdd_satcount(St, f), "bdd_satcount", f)
    /\ UNCHANGED held

Call_bdd_eq ==
    /\ Running
    /\ \E f, g \in LiveHandles :
          Commit(bdd_eq(St, f, g), "bdd_eq", f)
    /\ UNCHANGED held

Call_bdd_pickcube ==
    /\ Running
    /\ \E f \in LiveHandles : Commit(bdd_pickcube(St, f), "bdd_pickcube", f)
    /\ UNCHANGED held

Call_bdd_save ==
    /\ Running
    /\ \E f \in LiveHandles, path_utf8 \in BOOLEAN, write_ok \in BOOLEAN :
          Commit(bdd_save(St, f, path_utf8, write_ok), "bdd_save", f)
    /\ UNCHANGED held

\* ------------------------------------------------------------- specification
Init ==
    /\ managers = [m \in ManagerIds |-> Free]
    /\ handles = [h \in HandleIds |-> Free]
    /\ proc = "running"
    /\ held = [m \in ManagerIds |-> 0]
    /\ last = [op |-> "start", arg |-> 0, ret |-> NoValue]
    /\ heap_limit = MaxObjects

Next ==
    \/ Call_manager_new
    \/ Call_manager_ref
    \/ Call_manager_unref
    \/ Call_manager_node_count
    \/ Call_manager_ithvar
    \/ Call_manager_nithvar
    \/ Call_manager_true
    \/ Call_manager_false
    \/ Call_bdd_ref
    \/ Call_bdd_unref
    \/ Call_bdd_not
    \/ Call_bdd_and
    \/ Call_bdd_or
    \/ Call_bdd_xor
    \/ Call_bdd_imp
    \/ Call_bdd_iff
    \/ Call_bdd_and_not
    \/ Call_bdd_ite
    \/ Call_bdd_var_exists
    \/ Call_bdd_var_forall
    \/ Call_bdd_exists
    \/ Call_bdd_forall
    \/ Call_bdd_and_exists
    \/ Call_bdd_or_exists
    \/ Call_bdd_and_forall
    \/ Call_bdd_or_forall
    \/ Call_bdd_rename_variable
    \/ Call_bdd_rename_variables
    \/ Call_bdd_nodecount
    \/ Call_bdd_satcount
    \/ Call_bdd_eq
    \/ Call_bdd_pickcube
    \/ Call_bdd_save

Spec == Init /\ [][Next]_vars

\* A second specification for the read-only calls: the program holds one
\* Manager over n variables and one Handle whose diagram is any diagram over
\* those variables (every diagram is the result of some sequence of
\* construction calls whose other Handles have been released).
InitCube ==
    /\ \E n \in 0..MaxCubeVars : \E f \in Bdds(n) :
          /\ managers = [m \in ManagerIds |->
                            IF m = 1
                            THEN [Manager_new(n, CubeBudget) EXCEPT
                                     !.rc = 2, !.nodes_total = size(f)]
                            ELSE Free]
          /\ handles = [h \in HandleIds |->
                            IF h = 1 THEN RcBdd_new(f, 1) ELSE Free]
    /\ proc = "running"
    /\ held = [m \in ManagerIds |-> IF m = 1 THEN 1 ELSE 0]
    /\ last = [op |-> "start", arg |-> 0, ret |-> NoValue]
    /\ heap_limit = MaxObjects

NextCube ==
    \/ Call_bdd_pickcube
    \/ Call_bdd_nodecount
    \/ Call_bdd_satcount
    \/ Call_bdd_eq
    \/ Call_bdd_save
    \/ Call_manager_node_count
    \/ Call_bdd_ref
    \/ Call_bdd_unref

SpecCube == InitCube /\ [][NextCube]_vars

\* A third specification for the construction calls: the program holds two
\* Managers over MixVars variables, each with one Handle whose diagram is any
\* diagram over those variables and whose rc the caller may have raised.
InitConstruct ==
    /\ \E f \in Bdds(MixVars), g \in Bdds(MixVars) : \E c \in 1..MaxRc :
          /\ managers = [m \in ManagerIds |->
                            IF m \in {1, 2}
                            THEN [Manager_new(MixVars, MixBudget) EXCEPT
                                     !.rc = 2,
                                     !.nodes_total = size(IF m = 1 THEN f ELSE g)]
                            ELSE Free]
          /\ handles = [h \in HandleIds |->
                            IF h = 1 THEN [RcBdd_new(f, 1) EXCEPT !.rc = c]
                            ELSE IF h = 2 THEN RcBdd_new(g, 2)
                            ELSE Free]
    /\ proc = "running"
    /\ held = [m \in ManagerIds |-> IF m \in {1, 2} THEN 1 ELSE 0]
    /\ last = [op |-> "start", arg |-> 0, ret |-> NoValue]
    /\ heap_limit = MaxObjects + 1

NextConstruct ==
    \/ Call_manager_ithvar
    \/ Call_manager_nithvar
    \/ Call_manager_true
    \/ Call_manager_false
    \/ Call_bdd_not
    \/ Call_bdd_and
    \/ Call_bdd_or
    \/ Call_bdd_xor
    \/ Call_bdd_imp
    \/ Call_bdd_iff
    \/ Call_bdd_and_not
    \/ Call_bdd_ite
    \/ Call_bdd_var_exists
    \/ Call_bdd_var_forall
    \/ Call_bdd_exists
    \/ Call_bdd_forall
    \/ Call_bdd_and_exists
    \/ Call_bdd_or_exists
    \/ Call_bdd_and_forall
    \/ Call_bdd_or_forall
    \/ Call_bdd_rename_variable
    \/ Call_bdd_rename_variables

SpecConstruct == InitConstruct /\ [][NextConstruct]_vars

\* ------------------------------------------------------------- claims
\* The live Handles that point to Manager m in state s.
HandlesOf(s, m) == {h \in HandleIds : HandleLive(s, h) /\ s.handles[h].manager = m}

\* The sum of bdd_nodecount over the Handles in H, each counted separately.
RECURSIVE SumNodecount(_, _)
SumNodecount(s, H) ==
    IF H = {} THEN 0
    ELSE LET h == CHOOSE x \in H : TRUE
         IN  bdd_nodecount(s, h).ret + SumNodecount(s, H \ {h})

\* The names of the diagram-producing calls.
ConstructionOps ==
    {"manager_true", "manager_false", "manager_ithvar", "manager_nithvar",
     "bdd_not", "bdd_and", "bdd_or", "bdd_xor", "bdd_imp", "bdd_iff", "bdd_and_not",
     "bdd_ite", "bdd_var_exists", "bdd_var_forall", "bdd_exists", "bdd_forall",
     "bdd_and_exists", "bdd_or_exists", "bdd_and_forall", "bdd_or_forall",
     "bdd_rename_variable", "bdd_rename_variables"}

\* C1: while no construction call has exceeded the budget, every call has
\* completed and manager_node_count of each live Manager equals the sum of
\* bdd_nodecount over the live Handles of that Manager, each Handle counted
\* separately even if two hold structurally equal diagrams; a leaf
\* construction whose charge stays within the budget completes.
C1_AccountingIdentity ==
    Running =>
        \A m \in LiveManagers :
            /\ manager_node_count(St, m).ret = SumNodecount(St, HandlesOf(St, m))
            /\ \A b \in {mk_true(managers[m].var_set), mk_false(managers[m].var_set)} :
                  (Room /\ managers[m].nodes_total + size(b) <= managers[m].max_nodes_total)
                      => LET r == from_bdd(St, b, m)
                         IN  /\ r.st.proc = "running"
                             /\ manager_node_count(r.st, m).ret =
                                    SumNodecount(r.st, HandlesOf(r.st, m))

\* C1 witness: a construction call has just returned a second Handle whose
\* diagram is structurally equal to that of another live Handle of the same
\* Manager, and both are counted.
C1_Witness ==
    /\ Running
    /\ last.op \in ConstructionOps
    /\ \E f, g \in LiveHandles :
          /\ f # g
          /\ g = last.ret
          /\ handles[f].manager = handles[g].manager
          /\ handles[f].bdd = handles[g].bdd
          /\ managers[handles[f].manager].nodes_total = 2 * size(handles[f].bdd)

\* C2: a construction call that makes nodes_total exceed max_nodes_total
\* stops the process and creates no Handle, one that brings it to at most
\* max_nodes_total (exactly max_nodes_total included) returns a new Handle;
\* while the process runs, nodes_total <= max_nodes_total in every Manager.
C2_BudgetGuard ==
    /\ Running =>
          \A m \in LiveManagers :
              /\ managers[m].nodes_total <= managers[m].max_nodes_total
              /\ Room => \A b \in Bdds(managers[m].var_set) :
                    LET r == from_bdd(St, b, m)
                    IN  IF managers[m].nodes_total + size(b) > managers[m].max_nodes_total
                        THEN /\ r.st.proc = "abort_budget"
                             /\ r.st.handles = handles
                        ELSE /\ r.st.proc = "running"
                             /\ r.ret \in HandleIds \ LiveHandles
                             /\ HandleLive(r.st, r.ret)
    /\ proc = "abort_budget" =>
          /\ last.op \in ConstructionOps
          /\ \E m \in LiveManagers :
                managers[m].nodes_total > managers[m].max_nodes_total

\* C2 witness: a construction call has returned a Handle with the budget
\* used up exactly.
C2_Witness ==
    /\ Running
    /\ last.op \in ConstructionOps
    /\ HandleLive(St, last.ret)
    /\ LET m == handles[last.ret].manager
       IN  managers[m].nodes_total = managers[m].max_nodes_total

\* C3: in every step a Manager is destroyed exactly if its rc is 1 and the
\* step is manager_unref on it, called by the caller or by the terminal
\* bdd_unref of one of its Handles; and the Manager of every live Handle is
\* alive with rc >= 1.
C3_Step ==
    /\ \A m \in ManagerIds :
          (ManagerLive(St, m) /\ ~ManagerLive(St', m)) <=>
              /\ ManagerLive(St, m)
              /\ managers[m].rc = 1
              /\ \/ last'.op = "manager_unref" /\ last'.arg = m
                 \/ /\ last'.op = "bdd_unref"
                    /\ handles[last'.arg].rc = 1
                    /\ handles[last'.arg].manager = m
    /\ \A h \in HandleIds :
          HandleLive(St', h) =>
              /\ ManagerLive(St', handles'[h].manager)
              /\ managers'[handles'[h].manager].rc >= 1

C3_ManagerLifetime == [][C3_Step]_vars

\* C3 witness: the caller's manager_unref has destroyed a Manager.
C3_Witness ==
    /\ Running
    /\ last.op = "manager_unref"
    /\ ~ManagerLive(St, last.arg)

\* C4: the terminal bdd_unref of a Handle lowers manager_node_count of its
\* Manager by exactly the Handle's bdd_nodecount, and a Manager none of whose
\* Handles is live has manager_node_count 0.
C4_ReleaseAccounting ==
    Running =>
        /\ \A f \in LiveHandles :
              handles[f].rc = 1 =>
                  LET m == handles[f].manager
                      r == bdd_unref(St, f)
                  IN  /\ r.st.proc = "running"
                      /\ ~HandleLive(r.st, f)
                      /\ ManagerLive(r.st, m) =>
                            manager_node_count(r.st, m).ret =
                                manager_node_count(St, m).ret - bdd_nodecount(St, f).ret
        /\ \A m \in LiveManagers :
              HandlesOf(St, m) = {} => manager_node_count(St, m).ret = 0

\* C4 witness: the terminal bdd_unref of the last Handle of a Manager has
\* returned and the Manager lives on.
C4_Witness ==
    /\ Running
    /\ last.op = "bdd_unref"
    /\ ~HandleLive(St, last.arg)
    /\ \E m \in LiveManagers :
          /\ HandlesOf(St, m) = {}
          /\ managers[m].rc = held[m]
          /\ LiveManagers = {m}
          /\ LiveHandles = {}

\* k calls of manager_ref / manager_unref / bdd_ref / bdd_unref in a row.
RECURSIVE ManagerRefs(_, _, _)
ManagerRefs(s, m, k) ==
    IF k = 0 THEN s ELSE ManagerRefs(manager_ref(s, m).st, m, k - 1)

RECURSIVE ManagerUnrefs(_, _, _)
ManagerUnrefs(s, m, k) ==
    IF k = 0 THEN s ELSE ManagerUnrefs(manager_unref(s, m).st, m, k - 1)

RECURSIVE BddRefs(_, _, _)
BddRefs(s, f, k) ==
    IF k = 0 THEN s ELSE BddRefs(bdd_ref(s, f).st, f, k - 1)

RECURSIVE BddUnrefs(_, _, _)
BddUnrefs(s, f, k) ==
    IF k = 0 THEN s ELSE BddUnrefs(bdd_unref(s, f).st, f, k - 1)

\* C5: for a live Manager or Handle, k refs followed by k unrefs give back
\* the state before (every rc, nodes_total, diagram and what is alive), k
\* refs followed by k-1 unrefs leave the object alive, and ref returns the
\* pointer it was given and allocates nothing.
C5_RefUnrefRoundTrip ==
    Running =>
        /\ \A m \in LiveManagers : \A k \in 1..MaxRefs :
              LET up == ManagerRefs(St, m, k)
              IN  /\ manager_ref(St, m).ret = m
                  /\ up = [St EXCEPT !.managers[m].rc = @ + k]
                  /\ ManagerUnrefs(up, m, k) = St
                  /\ ManagerLive(ManagerUnrefs(up, m, k - 1), m)
        /\ \A f \in LiveHandles : \A k \in 1..MaxRefs :
              LET up == BddRefs(St, f, k)
              IN  /\ bdd_ref(St, f).ret = f
                  /\ up = [St EXCEPT !.handles[f].rc = @ + k]
                  /\ BddUnrefs(up, f, k) = St
                  /\ HandleLive(BddUnrefs(up, f, k - 1), f)

\* C5 witness: bdd_unref has brought a Handle back to rc 1 after a bdd_ref,
\* and the Handle is alive.
C5_Witness ==
    /\ Running
    /\ last.op = "bdd_unref"
    /\ HandleLive(St, last.arg)
    /\ handles[last.arg].rc = 1
    /\ managers[handles[last.arg].manager].nodes_total = size(handles[last.arg].bdd)

\* C6: whatever the order of the releases, no call touches a Manager that
\* has been destroyed or destroys it twice, no subtraction underflows, a
\* Manager is alive exactly while the caller holds an explicit reference or
\* one of its Handles is alive, and the terminal bdd_unref is the
\* subtraction, then manager_unref, then the destruction of the Handle.
C6_ReleaseOrder ==
    /\ proc \notin {"ub", "overflow"}
    /\ Running =>
          /\ \A m \in ManagerIds :
                ManagerLive(St, m) <=> (held[m] > 0 \/ HandlesOf(St, m) # {})
          /\ \A f \in LiveHandles :
                handles[f].rc = 1 =>
                    LET m  == handles[f].manager
                        r1 == SubtractNodes(St, f)
                        r2 == manager_unref(r1.st, m)
                        r3 == DropHandle(r2.st, f)
                    IN  /\ r1.st.proc = "running"
                        /\ r2.st.proc = "running"
                        /\ bdd_unref(St, f).st = r3.st
                        /\ r3.st.proc = "running"

\* C6 witness: the caller dropped its Manager reference first and the
\* terminal bdd_unref of the last Handle has destroyed the Manager.
C6_Witness ==
    /\ Running
    /\ last.op = "bdd_unref"
    /\ LiveHandles = {}
    /\ LiveManagers = {}

\* Whether total assignment a agrees with the cube: a don't-care entry
\* agrees with both values.
Fills(data, a) ==
    \A i \in 1..Len(data) :
        /\ data[i] = OptBool_True => (i - 1) \in a
        /\ data[i] = OptBool_False => (i - 1) \notin a

\* C7: bdd_pickcube on a diagram that is not false returns a cube all of
\* whose total assignments satisfy the diagram, and on the false diagram it
\* returns the null pointer with length 0.
C7_PickCubeSatisfies ==
    last.op = "bdd_pickcube" =>
        /\ Running
        /\ LET g == handles[last.arg].bdd
           IN  IF is_false(g)
               THEN last.ret.is_null /\ last.ret.len = 0 /\ last.ret.data = <<>>
               ELSE /\ ~last.ret.is_null
                    /\ \A a \in AllAssignments(g.num_vars) :
                          Fills(last.ret.data, a) => a \in g.tt

\* C7 witness: bdd_pickcube has returned a cube with a true, a false and a
\* don't-care entry.
C7_Witness ==
    /\ Running
    /\ last.op = "bdd_pickcube"
    /\ ~last.ret.is_null
    /\ {OptBool_None, OptBool_False, OptBool_True} \subseteq Range(last.ret.data)

\* C8 as stated: the length returned by bdd_pickcube always equals the
\* number of variables of the Manager of the diagram.
C8_LengthAlwaysN ==
    last.op = "bdd_pickcube" =>
        /\ Running
        /\ last.ret.len = managers[handles[last.arg].manager].var_set

\* C8 amended: the length returned by bdd_pickcube equals the number of
\* variables of the Manager of the diagram when the diagram is not false,
\* and is 0 when it is false.
C8_LengthNUnlessFalse ==
    last.op = "bdd_pickcube" =>
        /\ Running
        /\ LET g == handles[last.arg].bdd
               N == managers[handles[last.arg].manager].var_set
           IN  /\ last.ret.len = Len(last.ret.data)
               /\ last.ret.len = (IF is_false(g) THEN 0 ELSE N)

\* C8 witness: bdd_pickcube has returned a cube over the largest universe.
C8_Witness ==
    /\ Running
    /\ last.op = "bdd_pickcube"
    /\ ~last.ret.is_null
    /\ last.ret.len = MaxCubeVars
    /\ size(handles[last.arg].bdd) > MaxCubeVars

\* C9 as stated: the process stops only by node-budget overflow.
C9_OnlyBudgetAborts == ~Running => proc = "abort_budget"

\* C9 amended: every call returns or stops the process, and the process
\* stops only in a construction call that exceeds the node budget or in a
\* bdd_save whose path is not UTF-8 or whose write fails.
C9_AbortCauses ==
    /\ proc \in {"running", "abort_budget", "panic"}
    /\ proc = "abort_budget" =>
          /\ last.op \in ConstructionOps
          /\ \E m \in LiveManagers :
                managers[m].nodes_total > managers[m].max_nodes_total
    /\ proc = "panic" => last.op = "bdd_save"
    /\ Running =>
          \A f \in LiveHandles :
              /\ bdd_pickcube(St, f).st.proc = "running"
              /\ bdd_save(St, f, TRUE, TRUE).st.proc = "running"
              /\ \A u \in BOOLEAN, w \in BOOLEAN :
                    (~u \/ ~w) => bdd_save(St, f, u, w).st.proc = "panic"

\* C9 witness: a failing bdd_save has stopped the process.
C9_Witness == proc = "panic" /\ last.op = "bdd_save"

\* The diagram over n variables of the conjunction of the literals that
\* are positive for the variables in P and negative for those in Q.
LiteralCube(n, P, Q) ==
    [num_vars |-> n, tt |-> {a \in AllAssignments(n) : P \subseteq a /\ Q \cap a = {}}]

\* C10: on the conjunction of literals over a set of variables bdd_pickcube
\* returns the polarity of its literal for each of these variables and
\* don't-care for every other variable; on the true diagram every entry is
\* don't-care.
C10_UnvisitedDontCare ==
    last.op = "bdd_pickcube" =>
        /\ Running
        /\ LET g == handles[last.arg].bdd
               n == g.num_vars
           IN  \A P \in SUBSET VarsOf(n) : \A Q \in SUBSET (VarsOf(n) \ P) :
                   g = LiteralCube(n, P, Q) =>
                       last.ret.data =
                           [i \in 1..n |-> IF (i - 1) \in P THEN OptBool_True
                                           ELSE IF (i - 1) \in Q THEN OptBool_False
                                           ELSE OptBool_None]

\* C10 witness: bdd_pickcube on x0 AND x1 over three variables has returned
\* [true, true, don't-care].
C10_Witness ==
    /\ Running
    /\ last.op = "bdd_pickcube"
    /\ handles[last.arg].bdd = Bdd_and(mk_var(3, 0), mk_var(3, 1))
    /\ last.ret.data = <<OptBool_True, OptBool_True, OptBool_None>>

\* C11: a successful diagram-producing call, the two renames included,
\* returns a Handle that was not alive before, so distinct from every
\* input, and leaves the diagram, the bdd_nodecount and the rc of every
\* Handle that was alive before as they were.
C11_Step ==
    (last'.op \in ConstructionOps /\ proc' = "running") =>
        /\ last'.ret \in HandleIds \ LiveHandles
        /\ HandleLive(St', last'.ret)
        /\ \A h \in LiveHandles :
              /\ HandleLive(St', h)
              /\ handles'[h].bdd = handles[h].bdd
              /\ handles'[h].rc = handles[h].rc
              /\ bdd_nodecount(St', h).ret = bdd_nodecount(St, h).ret

C11_InputsImmutable == [][C11_Step]_vars

\* C11 witness: bdd_rename_variable has returned a Handle whose diagram
\* differs from the diagram of the Handle it was given, which still has
\* the rc the caller had raised.
C11_Witness ==
    /\ Running
    /\ last.op = "bdd_rename_variable"
    /\ HandleLive(St, last.ret)
    /\ last.ret # last.arg
    /\ handles[last.ret].bdd # handles[last.arg].bdd
    /\ handles[last.arg].rc = MaxRc

\* C12: for every number of variables and every budget, manager_new returns
\* a Manager that was not alive before, with rc 1, nodes_total 0 and the
\* arguments it was given, manager_node_count of it is 0 right away, and
\* every other Manager and every Handle is as before.
C12_ManagerNew ==
    Running =>
        /\ FreeManagerIds(St) # {} =>
              \A num_vars \in 0..MaxVars, max_nodes_total \in 0..MaxBudget :
                  LET r == manager_new(St, num_vars, max_nodes_total)
                      p == r.ret
                  IN  /\ r.st.proc = "running"
                      /\ p \in ManagerIds \ LiveManagers
                      /\ r.st.managers[p].rc = 1
                      /\ r.st.managers[p].nodes_total = 0
                      /\ r.st.managers[p].var_set = num_vars
                      /\ r.st.managers[p].max_nodes_total = max_nodes_total
                      /\ manager_node_count(r.st, p).ret = 0
                      /\ \A m \in LiveManagers : r.st.managers[m] = managers[m]
                      /\ r.st.handles = handles
        /\ last.op = "manager_new" =>
              /\ managers[last.ret].rc = 1
              /\ manager_node_count(St, last.ret).ret = 0

\* C12 witness: manager_new has returned a second Manager while the first
\* has nodes charged to it.
C12_Witness ==
    /\ Running
    /\ last.op = "manager_new"
    /\ managers[last.ret].nodes_total = 0
    /\ \E m \in LiveManagers : m # last.ret /\ managers[m].nodes_total > 0

\* The leaf constructors: their first argument is the Manager itself.
LeafOps == {"manager_true", "manager_false", "manager_ithvar", "manager_nithvar"}

\* C13: a successful diagram-producing call returns a Handle that was not
\* alive before, with rc 1, that points to the Manager of the first operand
\* (the Manager argument of a leaf constructor); that Manager's rc grows by
\* exactly 1 and its nodes_total by the bdd_nodecount of the result, also
\* when a live Handle already holds the same diagram, and no other Manager
\* changes.
C13_Step ==
    (last'.op \in ConstructionOps /\ proc' = "running") =>
        LET m == IF last'.op \in LeafOps THEN last'.arg
                 ELSE handles[last'.arg].manager
            p == last'.ret
        IN  /\ p \in HandleIds \ LiveHandles
            /\ HandleLive(St', p)
            /\ handles'[p].rc = 1
            /\ handles'[p].manager = m
            /\ managers'[m] =
                  [managers[m] EXCEPT !.rc = @ + 1,
                                      !.nodes_total = @ + bdd_nodecount(St', p).ret]
            /\ \A m2 \in ManagerIds \ {m} : managers'[m2] = managers[m2]

C13_ConstructionProtocol == [][C13_Step]_vars

\* C13 witness: bdd_and of a Handle of one Manager with a Handle of another
\* Manager has returned a Handle of the first Manager whose diagram is the
\* one the second operand holds.
C13_Witness ==
    /\ Running
    /\ last.op = "bdd_and"
    /\ HandleLive(St, last.ret)
    /\ handles[last.ret].manager = handles[last.arg].manager
    /\ handles[last.ret].bdd # handles[last.arg].bdd
    /\ \E g \in LiveHandles :
          /\ g # last.ret
          /\ handles[g].manager # handles[last.arg].manager
          /\ handles[g].bdd = handles[last.ret].bdd

\* C14: bdd_ref raises the rc of the Handle it is given by 1 and bdd_unref
\* on a Handle with rc > 1 lowers it by 1; either leaves the Handle alive
\* with its diagram and changes nothing else: not the rc or nodes_total of
\* the owning Manager, nor any other Handle.
C14_Step ==
    /\ (last'.op = "bdd_ref" /\ proc' = "running") =>
          /\ managers' = managers
          /\ handles' = [handles EXCEPT ![last'.arg].rc = @ + 1]
    /\ (last'.op = "bdd_unref" /\ proc' = "running" /\ handles[last'.arg].rc > 1) =>
          /\ managers' = managers
          /\ handles' = [handles EXCEPT ![last'.arg].rc = @ - 1]
          /\ HandleLive(St', last'.arg)

C14_RefCountOnly == [][C14_Step]_vars

\* C14 witness: bdd_unref has lowered the rc of a Handle that stays alive
\* next to another Handle of the same Manager, and the Manager's rc still
\* counts each of the two Handles once.
C14_Witness ==
    /\ Running
    /\ last.op = "bdd_unref"
    /\ HandleLive(St, last.arg)
    /\ \E g \in LiveHandles :
          /\ g # last.arg
          /\ handles[g].manager = handles[last.arg].manager
          /\ handles[g].rc = MaxRc
    /\ managers[handles[last.arg].manager].rc = held[handles[last.arg].manager] + 2

\* C15: on a diagram that is not false the walk of bdd_pickcube ends at the
\* terminal true node without a panic, after at most N iterations whatever
\* the number of nodes of the diagram; the variables of the nodes it stands
\* on strictly increase (at most one node per level) and are all variables
\* of the universe, so it never stands on the terminal false node.
C15_WalkTerminates ==
    last.op = "bdd_pickcube" =>
        /\ Running
        /\ LET g == handles[last.arg].bdd
               N == managers[handles[last.arg].manager].var_set
           IN  ~is_false(g) =>
                   LET w == PickCubeWalk(g)
                   IN  /\ ~w.panic
                       /\ last.ret.data = w.assignment
                       /\ Len(w.visited) <= N
                       /\ \A k \in 1..Len(w.visited) : w.visited[k] \in VarsOf(N)
                       /\ \A j, k \in 1..Len(w.visited) :
                             j < k => w.visited[j] < w.visited[k]

\* C15 witness: bdd_pickcube has returned from a diagram with more nodes than
\* twice the number of variables, on which the walk stood on one node of
\* each level.
C15_Witness ==
    /\ Running
    /\ last.op = "bdd_pickcube"
    /\ ~last.ret.is_null
    /\ LET g == handles[last.arg].bdd
       IN  /\ size(g) > 2 * g.num_vars
           /\ g.num_vars = MaxCubeVars
           /\ Len(PickCubeWalk(g).visited) = g.num_vars

\* The node the walk w on diagram g stands on in its k-th iteration: the
\* root, then the successor chosen by the value recorded for the variable
\* of the node before.
RECURSIVE NodeAt(_, _, _)
NodeAt(g, w, k) ==
    IF k = 1 THEN root_pointer(g)
    ELSE LET q == NodeAt(g, w, k - 1)
         IN  IF w.assignment[w.visited[k - 1] + 1] = OptBool_True
             THEN high_link_of(g.num_vars, q)
             ELSE low_link_of(g.num_vars, q)

\* C16: at every node the walk of bdd_pickcube stands on, the variable of
\* the node is recorded false exactly if the low successor is not the
\* terminal false node and true exactly if it is, and then the high
\* successor is not the terminal false node; no decision node of a reduced
\* diagram has both successors at the terminal false node, so the debug
\* assertion holds.
C16_PrefersLow ==
    last.op = "bdd_pickcube" =>
        /\ Running
        /\ LET g == handles[last.arg].bdd
               n == g.num_vars
           IN  /\ \A p \in InnerNodes(n, root_pointer(g)) :
                     ~(is_zero(low_link_of(n, p)) /\ is_zero(high_link_of(n, p)))
               /\ ~is_false(g) =>
                     LET w == PickCubeWalk(g)
                     IN  /\ last.ret.data = w.assignment
                         /\ \A k \in 1..Len(w.visited) :
                               LET p == NodeAt(g, w, k)
                                   v == w.visited[k]
                               IN  /\ v = var_of(n, p)
                                   /\ last.ret.data[v + 1] = OptBool_False
                                         <=> ~is_zero(low_link_of(n, p))
                                   /\ last.ret.data[v + 1] = OptBool_True
                                         <=> is_zero(low_link_of(n, p))
                                   /\ is_zero(low_link_of(n, p))
                                         => ~is_zero(high_link_of(n, p))

\* C16 witness: bdd_pickcube on x0 OR x1 has returned [false, true]: at the
\* root both successors were open and the low one was taken, at the next
\* node the low successor was the terminal false node.
C16_Witness ==
    /\ Running
    /\ last.op = "bdd_pickcube"
    /\ handles[last.arg].bdd = Bdd_or(mk_var(2, 0), mk_var(2, 1))
    /\ last.ret.data = <<OptBool_False, OptBool_True>>

\* C17: while the process runs, the rc of every live Manager is the number
\* of explicit references the caller holds (1 from manager_new, plus its
\* manager_ref calls, minus its manager_unref calls) plus the number of live
\* Handles that point to it, whatever the rc of those Handles.
C17_ManagerRcCount ==
    Running =>
        \A m \in LiveManagers :
            managers[m].rc = held[m] + Cardinality(HandlesOf(St, m))

\* C17 witness: bdd_ref has raised the rc of a Handle of a Manager to which
\* the caller holds two explicit references, and the Manager's rc is 3.
C17_Witness ==
    /\ Running
    /\ last.op = "bdd_ref"
    /\ handles[last.arg].rc = MaxRc
    /\ LET m == handles[last.arg].manager
       IN  /\ held[m] = 2
           /\ HandlesOf(St, m) = {last.arg}
           /\ managers[m].rc = 3

\* k rounds of a construction of diagram b in Manager m followed by the
\* release of the Handle it returned.
RECURSIVE Churn(_, _, _, _)
Churn(s, m, b, k) ==
    IF k = 0 \/ s.proc # "running" THEN s
    ELSE LET r == from_bdd(s, b, m)
         IN  IF r.st.proc # "running" THEN r.st
             ELSE Churn(bdd_unref(r.st, r.ret).st, m, b, k - 1)

\* C18: a construction call in Manager m stops the process exactly if the
\* sum of bdd_nodecount over the live Handles of m plus the node count of
\* the new diagram exceeds max_nodes_total; and a diagram that fits once can
\* be constructed and released MaxChurn times in a row, the budget being
\* given back by each release, although the node counts of the diagrams so
\* produced add up to more than max_nodes_total.
C18_BudgetLiveOnly ==
    Running =>
        \A m \in LiveManagers :
            Room =>
                \A live \in {SumNodecount(St, HandlesOf(St, m))} :
                \A b \in Bdds(managers[m].var_set) :
                    IF live + size(b) > managers[m].max_nodes_total
                    THEN from_bdd(St, b, m).st.proc = "abort_budget"
                    ELSE /\ from_bdd(St, b, m).st.proc = "running"
                         /\ MaxChurn * size(b) > managers[m].max_nodes_total
                               => Churn(St, m, b, MaxChurn) = St

\* C18 witness: a construction call has returned the lowest Handle slot
\* while every other slot holds a live Handle of the same Manager and the
\* budget is used up exactly. The highest slot was filled when all lower
\* ones held Handles of this Manager, so an earlier Handle of the lowest slot
\* was charged to this Manager and released: the diagrams the Manager has
\* produced add up to more than max_nodes_total.
C18_Witness ==
    /\ Running
    /\ last.op \in ConstructionOps
    /\ last.ret = Min(HandleIds)
    /\ LiveHandles = HandleIds
    /\ \E m \in LiveManagers :
          /\ HandlesOf(St, m) = HandleIds
          /\ managers[m].nodes_total = managers[m].max_nodes_total

\* C19: no subtraction of the terminal bdd_unref has gone below zero, and
\* while the process runs the nodes_total of every live Manager is a
\* natural number at least as large as the bdd_nodecount of each of its live
\* Handles, so the subtraction for any of them stays within the unsigned
\* range.
C19_NoUnderflow ==
    /\ proc # "overflow"
    /\ Running =>
          /\ \A m \in LiveManagers : managers[m].nodes_total \in Nat
          /\ \A f \in LiveHandles :
                /\ managers[handles[f].manager].nodes_total >= bdd_nodecount(St, f).ret
                /\ SubtractNodes(St, f).st.proc = "running"
                /\ SubtractNodes(St, f).st.managers[handles[f].manager].nodes_total \in Nat

\* C19 witness: the terminal bdd_unref of a Handle has returned from a full
\* heap, in which all Handles pointed to the one Manager, and what is left
\* in its nodes_total is exactly the node count of the Handles still alive.
C19_Witness ==
    /\ Running
    /\ last.op = "bdd_unref"
    /\ ~HandleLive(St, last.arg)
    /\ LiveHandles = HandleIds \ {last.arg}
    /\ Cardinality(LiveHandles) + 2 = heap_limit
    /\ \E m \in LiveManagers :
          /\ HandlesOf(St, m) = LiveHandles
          /\ managers[m].nodes_total = SumNodecount(St, LiveHandles)
          /\ managers[m].nodes_total > 0

\* The names of the read-only calls.
ReadOnlyOps ==
    {"manager_node_count", "bdd_nodecount", "bdd_satcount", "bdd_eq",
     "bdd_pickcube", "bdd_save"}

\* C20: a call of manager_node_count, bdd_nodecount, bdd_satcount, bdd_eq,
\* bdd_pickcube or bdd_save, whether it returns or stops the process, leaves
\* every Manager (its rc and nodes_total) and every Handle (its rc and
\* diagram) as they were, creates no Handle and no Manager, and so charges
\* nothing to a node budget.
C20_Step ==
    last'.op \in ReadOnlyOps =>
        /\ managers' = managers
        /\ handles' = handles
        /\ \A m \in LiveManagers :
              manager_node_count(St', m).ret = manager_node_count(St, m).ret

C20_ReadOnlyFrame == [][C20_Step]_vars

\* C20 witness: bdd_pickcube has returned a cube for a Handle whose Manager
\* has no budget left, and the budget is still used up exactly.
C20_Witness ==
    /\ Running
    /\ last.op = "bdd_pickcube"
    /\ ~last.ret.is_null
    /\ OptBool_True \in Range(last.ret.data)
    /\ LET m == handles[last.arg].manager
       IN  /\ managers[m].nodes_total = managers[m].max_nodes_total
           /\ HandlesOf(St, m) = {last.arg}

====
